---- MODULE Spec2Model ----
(***************************************************************************)
(* Model of the Lua scripting engine of Tendis,                            *)
(* src/tendisplus/script/lua_state.cpp.                                    *)
(*                                                                         *)
(* The specifications of this module share its variables:                  *)
(*   SpecCodec   the reply translator as pure functions                    *)
(*               (redisProtocolToLuaType / luaReplyToRedisReply), applied  *)
(*               to wire replies and Lua values drawn from bounded sets;   *)
(*   Spec        one engine instance (LuaState) running EVAL / EVALSHA     *)
(*               invocations, its gateway redis.call / redis.pcall, and    *)
(*               the key-lock manager it shares with another lock owner;   *)
(*   SpecScript  the same runner with scripts that compute, draw random    *)
(*               numbers and are watched by the count hook;                *)
(*   SpecLoop    scripts that never return, under fair interpreter steps;  *)
(*   SpecSess    invocations by sessions that differ in authentication     *)
(*               and selected database.                                    *)
(*                                                                         *)
(* Bytes are one-character strings and a wire reply or a Lua string is a   *)
(* sequence of bytes.  C arrays are 0-based, TLA+ sequences are 1-based:   *)
(* position p of this model is the C pointer reply + (p - 1).              *)
(***************************************************************************)
EXTENDS Integers, Sequences, FiniteSets, TLC

VARIABLES
  \* ---- reply translator harness (SpecCodec) ----
  cpc,      \* "off" | "wire" | "value" | "decoded" | "roundtrip" | "encoded"
  cx,       \* the wire reply handed to redisProtocolToLuaType
  cval,     \* the Lua value on top of the stack
  cout,     \* the wire reply produced by luaReplyToRedisReply
  \* ---- LuaState fields ----
  sess,                   \* _sess: the invoking session, or NoSess
  fakeSess,               \* _fakeSess: the bound non-networked session, or NoSess
  inuse,                  \* recursion guard of luaRedisGenericCommand
  lua_random_dirty,       \* a CMD_RANDOM command was called by this script
  lua_write_dirty,        \* a CMD_WRITE command was called by this script
  lua_replicate_commands, \* single-command replication mode
  lua_timedout,           \* the time limit was reached
  rand,                   \* _rand: state of the deterministic generator
  \* ---- the interpreter (lua_State) ----
  funcs,                  \* names of the functions f_<sha1> defined as globals
  KEYS, ARGV,             \* the globals KEYS and ARGV (Unbound before the first EVAL)
  top,                    \* lua_gettop: depth of the evaluation stack
  hook,                   \* luaMaskCountHook is registered (lua_sethook)
  \* ---- configuration and collaborators ----
  luaTimeLimit,           \* _svr->getParams()->luaTimeLimit
  locks,                  \* key-lock manager: set of [owner, key, mode]
  exec,                   \* command executor: what it was asked to run in this invocation
  \* ---- control: position and locals of evalGenericCommand / the script ----
  pc,                     \* "idle" | "locking" | "running" | "dispatch" | "raised" | "done"
  frame,                  \* locals of evalGenericCommand: args, evalsha, funcname, numkeys, delhook
  call,                   \* locals of the gateway call in progress, or NoCall
  lastRet,                \* what the last gateway call left for the script
  result,                 \* the Expected<std::string> evalGenericCommand returned
  trace,                  \* steps evalGenericCommand took in this invocation, in order
  evaled,                 \* bodies an EVAL on this instance has run to a reply
  \* ---- script control (ScriptManager) and the running script ----
  luaKill,                \* _scriptMgr->luaKill(): SCRIPT KILL was requested
  stopped,                \* _scriptMgr->stopped(): the server is stopping
  icount,                 \* instructions executed since the count hook last fired
  randOut                 \* what math.random returned in this invocation, in order

codecVars == <<cpc, cx, cval, cout>>
stateVars == <<sess, fakeSess, inuse, lua_random_dirty, lua_write_dirty,
               lua_replicate_commands, lua_timedout, rand>>
luaVars == <<funcs, KEYS, ARGV, top, hook>>
envVars == <<luaTimeLimit, locks, exec>>
ctlVars == <<pc, frame, call, lastRet, result, trace>>
histVars == <<evaled>>
scriptVars == <<luaKill, stopped, icount, randOut>>
engineVars == <<stateVars, luaVars, envVars, ctlVars, histVars, scriptVars>>

(***************************************************************************)
(* Bounds of the model.                                                    *)
(***************************************************************************)
MaxInt == 11       \* integer replies range over -MaxInt .. MaxInt
MaxStrLen == 2     \* longest bulk payload / status line / Lua string
MaxArr == 2        \* longest multi-bulk reply / Lua array

(***************************************************************************)
(* Bytes.                                                                  *)
(***************************************************************************)
CR == "\r"
LF == "\n"
CRLF == <<CR, LF>>
NUL == "NUL"       \* the byte 0 that ends a C string

Digits == <<"0", "1", "2", "3", "4", "5", "6", "7", "8", "9">>

DigitVal(c) == (CHOOSE i \in 1..10 : Digits[i] = c) - 1

IsDigit(c) == \E i \in 1..10 : Digits[i] = c

\* s[from .. to], empty when to < from
Slice(s, from, to) == IF to < from THEN <<>> ELSE SubSeq(s, from, to)

(***************************************************************************)
(* Integer <-> decimal text.                                               *)
(***************************************************************************)
RECURSIVE NatToStr(_)
NatToStr(n) == IF n < 10 THEN <<Digits[n + 1]>>
               ELSE NatToStr(n \div 10) \o <<Digits[(n % 10) + 1]>>

\* decimal text of a signed integer, as operator<< / Command::fmtLongLong print it
ll2string(n) == IF n < 0 THEN <<"-">> \o NatToStr(-n) ELSE NatToStr(n)

RECURSIVE StrToNat(_, _)
StrToNat(s, acc) == IF s = <<>> THEN acc
                    ELSE StrToNat(Tail(s), acc * 10 + DigitVal(Head(s)))

\* tendisplus::stoll: the whole text must be an optionally signed decimal number
stoll(s) ==
  LET body == IF s # <<>> /\ Head(s) = "-" THEN Tail(s) ELSE s
      wellFormed == body # <<>> /\ \A i \in 1..Len(body) : IsDigit(body[i])
  IN IF ~wellFormed THEN [ok |-> FALSE, value |-> 0]
     ELSE [ok |-> TRUE,
           value |-> IF Head(s) = "-" THEN -StrToNat(body, 0) ELSE StrToNat(body, 0)]

\* string2ll(s, slen, &value): 1 and the value on success, 0 on failure.
\* The replies decoded here are produced by the server and always parse.
string2ll(s) == stoll(s)

\* strchr(reply + from - 1, c): position of the first c at or after from
RECURSIVE strchr(_, _, _)
strchr(s, from, c) == IF from > Len(s) THEN 0
                      ELSE IF s[from] = c THEN from
                      ELSE strchr(s, from + 1, c)

(***************************************************************************)
(* Lua values.                                                             *)
(*   nil, boolean (b), number (a double: n its integer part, frac whether  *)
(*   it has a fractional part), string (s, a byte sequence) and table      *)
(*   (str: the entries keyed "err"/"ok", arr: the entries keyed by a       *)
(*   positive integer).                                                    *)
(***************************************************************************)
LuaNil == [t |-> "nil"]
LuaBool(b) == [t |-> "boolean", b |-> b]
LuaNumber(k, f) == [t |-> "number", n |-> k, frac |-> f]
LuaString(s) == [t |-> "string", s |-> s]
LuaTable(s, a) == [t |-> "table", str |-> s, arr |-> a]
LuaFunction == [t |-> "function"]
EmptyMap == <<>>

\* lua_pushnumber(lua, (lua_Number)value) of an int64
lua_pushnumber(value) == LuaNumber(value, FALSE)

\* lua_gettable with a string key
GetField(tbl, key) == IF key \in DOMAIN tbl.str THEN tbl.str[key] ELSE LuaNil

\* lua_gettable with an integer key
GetIndex(tbl, j) == IF j \in DOMAIN tbl.arr THEN tbl.arr[j] ELSE LuaNil

\* lua_settable(lua, -3) with an integer key
SetIndex(tbl, j, val) ==
  LuaTable(tbl.str, [i \in (DOMAIN tbl.arr) \cup {j} |-> IF i = j THEN val ELSE tbl.arr[i]])

\* a table holding the single entry field = val
SingleFieldTable(field, val) == LuaTable([k \in {field} |-> val], EmptyMap)

(***************************************************************************)
(* Decode: redisProtocolToLuaType and its five cases.  Each returns the    *)
(* value it pushes (v) and the position of the first unconsumed byte (p).  *)
(***************************************************************************)
RECURSIVE redisProtocolToLuaType(_, _)
RECURSIVE redisProtocolToLuaType_MultiBulk(_, _)
RECURSIVE MultiBulkLoop(_, _, _, _, _)

redisProtocolToLuaType_Int(reply, at) ==
  LET p == strchr(reply, at + 1, CR)
      value == string2ll(Slice(reply, at + 1, p - 1)).value
  IN [v |-> lua_pushnumber(value), p |-> p + 2]

redisProtocolToLuaType_Bulk(reply, at) ==
  LET p == strchr(reply, at + 1, CR)
      bulklen == string2ll(Slice(reply, at + 1, p - 1)).value
  IN IF bulklen = -1
     THEN [v |-> LuaBool(FALSE), p |-> p + 2]
     ELSE [v |-> LuaString(Slice(reply, p + 2, p + 2 + bulklen - 1)),
           p |-> p + 2 + bulklen + 2]

redisProtocolToLuaType_Status(reply, at) ==
  LET p == strchr(reply, at + 1, CR)
  IN [v |-> SingleFieldTable("ok", LuaString(Slice(reply, at + 1, p - 1))),
      p |-> p + 2]

redisProtocolToLuaType_Error(reply, at) ==
  LET p == strchr(reply, at + 1, CR)
  IN [v |-> SingleFieldTable("err", LuaString(Slice(reply, at + 1, p - 1))),
      p |-> p + 2]

\* for (j = 0; j < mbulklen; j++) { push j+1; decode child; settable }
MultiBulkLoop(reply, p, j, mbulklen, tbl) ==
  IF j >= mbulklen THEN [v |-> tbl, p |-> p]
  ELSE LET child == redisProtocolToLuaType(reply, p)
       IN MultiBulkLoop(reply, child.p, j + 1, mbulklen, SetIndex(tbl, j + 1, child.v))

redisProtocolToLuaType_MultiBulk(reply, at) ==
  LET p0 == strchr(reply, at + 1, CR)
      mbulklen == string2ll(Slice(reply, at + 1, p0 - 1)).value
      p == p0 + 2
  IN IF mbulklen = -1
     THEN [v |-> LuaBool(FALSE), p |-> p]
     ELSE MultiBulkLoop(reply, p, 0, mbulklen, LuaTable(EmptyMap, EmptyMap))

\* switch (*p): a first byte outside the five tags pushes nothing and
\* consumes nothing
redisProtocolToLuaType(reply, at) ==
  IF at > Len(reply) THEN [v |-> LuaNil, p |-> at]
  ELSE CASE reply[at] = ":" -> redisProtocolToLuaType_Int(reply, at)
         [] reply[at] = "$" -> redisProtocolToLuaType_Bulk(reply, at)
         [] reply[at] = "+" -> redisProtocolToLuaType_Status(reply, at)
         [] reply[at] = "-" -> redisProtocolToLuaType_Error(reply, at)
         [] reply[at] = "*" -> redisProtocolToLuaType_MultiBulk(reply, at)
         [] OTHER -> [v |-> LuaNil, p |-> at]

(***************************************************************************)
(* Wire formatters of Command (command.cpp) and redis_port::strmapchars.   *)
(***************************************************************************)
fmtBulk(s) == <<"$">> \o ll2string(Len(s)) \o CRLF \o s \o CRLF
fmtNull == <<"$", "-", "1">> \o CRLF
fmtOne == <<":", "1">> \o CRLF
fmtMultiBulkLen(n) == <<"*">> \o ll2string(n) \o CRLF

\* the int64 a double converts to: the fraction is dropped, towards zero
DoubleToLL(num) == num.n

fmtLongLong(v) == <<":">> \o ll2string(v) \o CRLF

\* strmapchars(s, "\r\n", "  ", 2): every CR and every LF becomes a space
strmapchars(s) == [i \in 1..Len(s) |-> IF s[i] \in {CR, LF} THEN " " ELSE s[i]]

\* std::string built from the char* lua_tostring returns: ends at the first NUL
c_str(s) == LET z == strchr(s, 1, NUL)
            IN IF z = 0 THEN s ELSE Slice(s, 1, z - 1)

(***************************************************************************)
(* Encode: luaReplyToRedisReply on the value on top of the stack.          *)
(***************************************************************************)
RECURSIVE luaReplyToRedisReply(_)
RECURSIVE ArrayLoop(_, _, _, _)

\* a loop that reports the size of the table and encodes no element
ArrayLoop_SizeOnly(tbl, j, mbulklen, rsp) == fmtMultiBulkLen(Cardinality(DOMAIN tbl.arr))

\* while (1) { push j++; gettable; if nil break; rsp += encode; mbulklen++ }
ArrayLoop(tbl, j, mbulklen, rsp) ==
  LET elem == GetIndex(tbl, j)
  IN IF elem.t = "nil" THEN fmtMultiBulkLen(mbulklen) \o rsp
     ELSE ArrayLoop(tbl, j + 1, mbulklen + 1, rsp \o luaReplyToRedisReply(elem))

\* the reply built from a table's string "ok" field (line 905)
OkFieldReply(ok) == fmtBulk(ok)

\* the reply built from a table's string "err" field (line 893)
ErrFieldReply(err) == <<"-">> \o err \o CRLF

\* an encoder that answers false with the integer 0
BooleanReply_FalseAsZero(b) == IF b THEN fmtOne ELSE fmtLongLong(0)

\* the reply built from a boolean (line 869)
BooleanReply(b) == IF b THEN fmtOne ELSE fmtNull

luaReplyToRedisReply(val) ==
  CASE val.t = "string" -> fmtBulk(val.s)
    [] val.t = "boolean" -> BooleanReply(val.b)
    [] val.t = "number" -> fmtLongLong(DoubleToLL(val))
    [] val.t = "table" ->
         IF GetField(val, "err").t = "string"
         THEN ErrFieldReply(strmapchars(c_str(GetField(val, "err").s)))
         ELSE IF GetField(val, "ok").t = "string"
         THEN OkFieldReply(strmapchars(c_str(GetField(val, "ok").s)))
         ELSE ArrayLoop(val, 1, 0, <<>>)
    [] OTHER -> fmtNull

(***************************************************************************)
(* What luaReplyToRedisReply does to the depth of the stack: every push    *)
(* (+1; lua_gettable replaces the key it pops by the value) and lua_pop of *)
(* the path taken for the value on top.                                    *)
(***************************************************************************)
RECURSIVE luaReplyToRedisReply_Depth(_)
RECURSIVE ArrayLoop_Depth(_, _)

\* lines 912-922: push j, gettable, then pop the nil or encode the element
ArrayLoop_Depth(tbl, j) ==
  LET elem == GetIndex(tbl, j)
  IN IF elem.t = "nil" THEN 1 - 1
     ELSE 1 + luaReplyToRedisReply_Depth(elem) + ArrayLoop_Depth(tbl, j + 1)

\* an encoder that leaves the elements of an array on the stack
luaReplyToRedisReply_Depth_ElementsLeft(val) ==
  IF val.t = "table" THEN Cardinality(DOMAIN val.arr) - 1 ELSE 0 - 1

luaReplyToRedisReply_Depth(val) ==
  CASE val.t = "string" -> 0 - 1
    [] val.t = "boolean" -> 0 - 1
    [] val.t = "number" -> 0 - 1
    [] val.t = "table" ->
         IF GetField(val, "err").t = "string" THEN 1 - 2
         ELSE IF GetField(val, "ok").t = "string" THEN 1 - 1 + 1 - 2
         ELSE 1 - 1 + 1 - 1 + ArrayLoop_Depth(val, 1) - 1
    [] OTHER -> 0 - 1

(***************************************************************************)
(* Bounded sets of wire replies and Lua values.                            *)
(***************************************************************************)
SeqsUpTo(S, n) == UNION {[1..k -> S] : k \in 0..n}

LineBytes == {"O", "K"}                 \* bytes of a status or error line
BulkBytes == {"a", CR, LF}              \* bytes of a bulk payload
LuaBytes == {"a", CR, NUL}              \* bytes of a string built by a script

WireInt(n) == <<":">> \o ll2string(n) \o CRLF
WireBulk(s) == <<"$">> \o ll2string(Len(s)) \o CRLF \o s \o CRLF
WireNilBulk == <<"$", "-", "1">> \o CRLF
WireStatus(s) == <<"+">> \o s \o CRLF
WireError(s) == <<"-">> \o s \o CRLF
WireNilArray == <<"*", "-", "1">> \o CRLF

RECURSIVE Concat(_)
Concat(ss) == IF ss = <<>> THEN <<>> ELSE Head(ss) \o Concat(Tail(ss))

WireArray(elems) == <<"*">> \o ll2string(Len(elems)) \o CRLF \o Concat(elems)

WireInts == {WireInt(n) : n \in (-MaxInt)..MaxInt}
WireBulks == {WireBulk(s) : s \in SeqsUpTo(BulkBytes, MaxStrLen)} \cup {WireNilBulk}
WireStatuses == {WireStatus(s) : s \in SeqsUpTo(LineBytes, MaxStrLen)}
WireErrors == {WireError(s) : s \in SeqsUpTo(LineBytes, MaxStrLen)}
WireScalars == WireInts \cup WireBulks \cup WireStatuses \cup WireErrors

\* the replies that appear as elements of a multi-bulk reply
WireElems == {WireInt(-1), WireInt(10), WireBulk(<<"a">>), WireBulk(<<CR, LF>>),
              WireNilBulk, WireStatus(<<"O", "K">>), WireError(<<"K">>),
              WireNilArray, WireArray(<<>>), WireArray(<<WireInt(7), WireNilBulk>>)}
WireArrays == {WireArray(e) : e \in SeqsUpTo(WireElems, MaxArr)} \cup {WireNilArray}
WireReplies == WireScalars \cup WireArrays

LuaStrings == {LuaString(s) : s \in SeqsUpTo(LuaBytes, MaxStrLen)}
LuaScalars == {LuaNil, LuaFunction, LuaBool(TRUE), LuaBool(FALSE)}
                \cup {LuaNumber(k, f) : k \in {-10, -1, 0, 1}, f \in BOOLEAN}
                \cup LuaStrings
\* values stored under "err" / "ok" and as array elements of a returned table
LuaFieldVals == {LuaString(<<"O", "K">>), LuaString(<<"a", CR>>), LuaString(<<LF, NUL>>),
                 LuaNumber(2, TRUE), LuaBool(FALSE)}
LuaStrMaps == UNION {[D -> LuaFieldVals] : D \in SUBSET {"err", "ok"}}
LuaArrMaps == UNION {[D -> LuaFieldVals] : D \in SUBSET (1..(MaxArr + 1))}
LuaTables == {LuaTable(s, a) : s \in LuaStrMaps, a \in {m \in LuaArrMaps : Cardinality(DOMAIN m) <= MaxArr}}
LuaValues == LuaScalars \cup LuaTables

(***************************************************************************)
(* SpecCodec: the translator applied to bounded inputs.                    *)
(***************************************************************************)
CodecInit ==
  /\ cout = <<>>
  /\ \/ cpc = "wire" /\ cx \in WireReplies /\ cval = LuaNil
     \/ cpc = "value" /\ cx = <<>> /\ cval \in LuaValues

\* decode one wire reply (database reply handed to the script)
CodecDecode ==
  /\ cpc = "wire"
  /\ cval' = redisProtocolToLuaType(cx, 1).v
  /\ cpc' = "decoded"
  /\ UNCHANGED <<cx, cout, engineVars>>

\* encode the value on top of the stack (script return value)
CodecEncode ==
  /\ cpc \in {"decoded", "value"}
  /\ cout' = luaReplyToRedisReply(cval)
  /\ cpc' = IF cpc = "decoded" THEN "roundtrip" ELSE "encoded"
  /\ UNCHANGED <<cx, cval, engineVars>>

CodecNext == CodecDecode \/ CodecEncode

(***************************************************************************)
(* The engine: one LuaState, its interpreter and its collaborators.        *)
(***************************************************************************)
NoSess == [null |-> TRUE]
Unbound == [unbound |-> TRUE]
NoCall == [active |-> FALSE]
NoFrame == [active |-> FALSE]
NoResult == [kind |-> "none"]

\* Expected<std::string>: a reply, or a Status carrying a message
Reply(bytes) == [kind |-> "ok", reply |-> bytes]
Failure(msg) == [kind |-> "err", msg |-> msg]

\* the invoking sessions: authentication state and selected database
Sessions == {[authed |-> TRUE, dbId |-> 1]}

\* script bodies handed to EVAL, by what the interpreter makes of the chunk
\* "function f_<sha1>() <body> \nend"
GoodBodies == {"return redis.call()"}
SyntaxErrorBodies == {"return +"}            \* luaL_loadbuffer fails
DefineErrorBodies == {"end error() do"}      \* the chunk loads, running it fails
ScriptBodies == GoodBodies \cup SyntaxErrorBodies \cup DefineErrorBodies

\* sha1hex(digest, script, len): 40 hex characters, one value per body
sha1hex(body) == "sha1(" \o body \o ")"
Digests == {sha1hex(b) : b \in ScriptBodies}
UnknownDigest == "ffffffffffffffffffffffffffffffffffffffff"

\* what the 41 bytes funcname + 2 hold when nothing was written to them:
\* the digest an earlier call left there, or any other bytes
StackGarbage == Digests \cup {"?"}

\* the digests handed to EVALSHA
ShaArgs == {sha1hex(b) : b \in GoodBodies} \cup {UnknownDigest}

OtherKeys == {"foo"}
ArgTails == {<<"foo", "bar">>}
NumkeysTexts == {<<"0">>, <<"1">>, <<"2">>, <<"3">>, <<"-", "1">>, <<"x">>}

\* the argument vector of the invoking command; args[i] of the source is Arg(args, i)
ArgVectors(evalsha) ==
  {<<IF evalsha = 1 THEN "evalsha" ELSE "eval", script, nk>> \o tail :
     script \in (IF evalsha = 1 THEN ShaArgs ELSE ScriptBodies),
     nk \in NumkeysTexts, tail \in ArgTails}

Arg(args, i) == args[i + 1]

(***************************************************************************)
(* Key-lock manager (SegmentMgr::getAllKeysLocked) shared with one other   *)
(* lock owner.                                                             *)
(***************************************************************************)
Self == "lua"
Other == "other"
LockModes == {"S", "X"}
LOCK_X == "X"

Compatible(held, wanted) == held = "S" /\ wanted = "S"

CanGrant(lockset, owner, keys, mode) ==
  \A l \in lockset : (l.owner # owner /\ l.key \in keys) => Compatible(l.mode, mode)

Grant(lockset, owner, keys, mode) ==
  lockset \cup {[owner |-> owner, key |-> k, mode |-> mode] : k \in keys}

Release(lockset, owner) == {l \in lockset : l.owner # owner}

\* keyidx that stops one key short
keyidx_OneShort(numkeys) == 3..(3 + numkeys - 2)

\* keyidx of evalGenericCommand: for (i = 3; i < 3 + numkeys; ++i)
keyidx(numkeys) == 3..(3 + numkeys - 1)

\* a runner that asks for shared locks
EvalLockMode_Shared == "S"

\* the mode evalGenericCommand asks for
EvalLockMode == LOCK_X

\* the keys the lock manager is asked to lock
KeysAt(args, idx) == {Arg(args, i) : i \in idx}

(***************************************************************************)
(* Interpreter capabilities used by the runner.                            *)
(***************************************************************************)
FuncName(digest) == "f_" \o digest

\* luaL_loadbuffer of the chunk that defines the function: TRUE when it loads
luaL_loadbuffer(body) == body \notin SyntaxErrorBodies

\* lua_pcall of the loaded chunk: TRUE when it runs to its end
DefinitionRuns(body) == body \notin DefineErrorBodies

\* a lookup that never finds the function
lua_isnil_global_AlwaysNil(defined, funcname) == TRUE

\* lua_getglobal(funcname) followed by lua_isnil
lua_isnil_global(defined, funcname) == funcname \notin defined

\* a binding that stores the first argument of the range at every index
luaSetGlobalArray_FirstOnly(args, start, num) == [j \in 1..num |-> Arg(args, start)]

\* luaSetGlobalArray: a fresh table holding args[start .. start+num)
luaSetGlobalArray(args, start, num) == [j \in 1..num |-> Arg(args, start + j - 1)]

\* numkeys > (int)(args.size() - 3)  or  numkeys < 0
NumkeysTooBig(numkeys, args) == numkeys > Len(args) - 3
\* the runner without its test for a negative numkeys
NumkeysNegative_Missing(numkeys) == FALSE

NumkeysNegative(numkeys) == numkeys < 0

\* _rand.redisSrand48(seed)
redisSrand48(seed) == seed

\* a runner that leaves the generator as the last script left it
ReseedOnEntry_Skipped(x) == x

\* line 1011: the generator state every invocation starts from
ReseedOnEntry(x) == redisSrand48(0)

\* a runner that leaves a dirty flag as the last script left it
DirtyOnEntry_Kept(flag) == flag

\* lines 1013-1014: a dirty flag as every invocation starts with it
DirtyOnEntry(flag) == 0

\* updateFakeClient: create the bound session once, then copy authentication
\* (only ever towards authenticated) and the selected database
updateFakeClient(fake, s) ==
  LET f0 == IF fake = NoSess THEN [authed |-> FALSE, dbId |-> 0] ELSE fake
      f1 == IF ~f0.authed /\ s.authed THEN [f0 EXCEPT !.authed = TRUE] ELSE f0
  IN IF f1.dbId # s.dbId THEN [f1 EXCEPT !.dbId = s.dbId] ELSE f1

(***************************************************************************)
(* Init: a freshly constructed LuaState (constructor and initLua).         *)
(***************************************************************************)
EngineInit ==
  /\ sess = NoSess /\ fakeSess = NoSess
  /\ inuse = 0
  /\ lua_random_dirty = 0 /\ lua_write_dirty = 0 /\ lua_replicate_commands = 0
  /\ lua_timedout = 0
  /\ rand = 0
  /\ funcs = {} /\ KEYS = Unbound /\ ARGV = Unbound
  /\ top = 0 /\ hook = FALSE
  /\ locks = {}
  /\ exec = [random |-> FALSE, writeAfterRandom |-> FALSE, dispatched |-> FALSE]
  /\ pc = "idle" /\ frame = NoFrame /\ call = NoCall
  /\ lastRet = LuaNil
  /\ result = NoResult /\ trace = <<>>
  /\ evaled = {}
  /\ luaKill = FALSE /\ stopped = FALSE
  /\ icount = 0 /\ randOut = <<>>

(***************************************************************************)
(* luaCreateFunction: define f_<sha1(body)>.  partial says whether a chunk *)
(* that fails while running had already executed its function statement,   *)
(* the first statement of the chunk.  depth is what the call does to the   *)
(* depth of the stack: the chunk or the message pushed, and the pops.      *)
(***************************************************************************)
luaCreateFunction(defined, body, partial) ==
  LET funcname == FuncName(sha1hex(body))
  IN IF ~luaL_loadbuffer(body)
     THEN [ok |-> FALSE, funcs |-> defined, depth |-> 1 - 1,
           err |-> <<"Error compiling script (new function):", "user_script:1: syntax error">>]
     ELSE IF ~DefinitionRuns(body)
     THEN [ok |-> FALSE, funcs |-> IF partial THEN defined \cup {funcname} ELSE defined,
           depth |-> 1 - 1 + 1 - 1,
           err |-> <<"Error running script (new function):", "user_script:1: error">>]
     ELSE [ok |-> TRUE, funcs |-> defined \cup {funcname}, depth |-> 1 - 1, err |-> <<>>]

(***************************************************************************)
(* evalGenericCommand, lines 1003-1077: validate numkeys, resolve or       *)
(* compile the function, bind KEYS and ARGV, refresh the bound session.    *)
(* Every return before line 1073 leaves without the scope guard.           *)
(***************************************************************************)
MkFrame(args, evalsha, funcname, numkeys) ==
  [active |-> TRUE, args |-> args, evalsha |-> evalsha, funcname |-> funcname,
   numkeys |-> numkeys, delhook |-> 0, locklist |-> "unset", reseeded |-> FALSE]

\* an early return: nothing of the interpreter but defined and the depth of
\* the stack changes; depth is the pushes and pops made up to the return
EvalReturnsEarly(fr, res, tr, defined, depth) ==
  /\ pc' = "done" /\ frame' = fr /\ result' = res /\ trace' = tr
  /\ funcs' = defined
  /\ top' = top + depth
  /\ UNCHANGED <<KEYS, ARGV, fakeSess>>

evalGenericCommand_Resolve(s, args, evalsha, garbage, partial) ==
  /\ pc = "idle"
  /\ sess' = s
  /\ rand' = ReseedOnEntry(rand)
  /\ lua_random_dirty' = DirtyOnEntry(lua_random_dirty)
  /\ lua_write_dirty' = DirtyOnEntry(lua_write_dirty)
  /\ lua_replicate_commands' = 0
  /\ lastRet' = LuaNil
  /\ exec' = [random |-> FALSE, writeAfterRandom |-> FALSE, dispatched |-> FALSE]
  /\ LET eNumkeys == stoll(Arg(args, 2))
         numkeys == eNumkeys.value
         funcname == FuncName(IF evalsha = 0 THEN sha1hex(Arg(args, 1)) ELSE garbage)
         \* reseeded: line 1011 replaced a generator state an earlier script left
         fr == [MkFrame(args, evalsha, funcname, numkeys)
                  EXCEPT !.reseeded = (rand # redisSrand48(0))]
         t0 == <<"redisSrand48", "reset_dirty", "stoll">>
         t1 == t0 \o <<"lua_getglobal">>
         created == luaCreateFunction(funcs, Arg(args, 1), partial)
         defined == IF lua_isnil_global(funcs, funcname) THEN created.funcs ELSE funcs
         t2 == IF lua_isnil_global(funcs, funcname) THEN t1 \o <<"luaCreateFunction">> ELSE t1
     IN IF ~eNumkeys.ok
        THEN EvalReturnsEarly(fr, Failure(<<"ERR value is not an integer or out of range">>), t0, funcs, 0)
        ELSE IF NumkeysTooBig(numkeys, args)
        THEN EvalReturnsEarly(fr, Failure(<<"Number of keys can't be greater than number of args">>), t0, funcs, 0)
        ELSE IF NumkeysNegative(numkeys)
        THEN EvalReturnsEarly(fr, Failure(<<"Number of keys can't be negative">>), t0, funcs, 0)
        ELSE IF lua_isnil_global(funcs, funcname) /\ evalsha = 1
        THEN EvalReturnsEarly(fr, Failure(<<"-NOSCRIPT No matching script. Please use EVAL.", CR, LF>>), t1, funcs,
                              1 + 1 - 1 - 1)
        ELSE IF lua_isnil_global(funcs, funcname) /\ ~created.ok
        THEN EvalReturnsEarly(fr, Failure(<<"luaCreateFunction failed">>), t2, created.funcs,
                              1 + 1 - 1 + created.depth - 1)
        ELSE /\ funcs' = defined
             \* the handler, and the function: found, or looked up again
             \* once the nil is popped and the function is defined
             /\ top' = IF lua_isnil_global(funcs, funcname)
                       THEN top + 1 + 1 - 1 + created.depth + 1
                       ELSE top + 1 + 1
             /\ KEYS' = luaSetGlobalArray(args, 3, numkeys)
             /\ ARGV' = luaSetGlobalArray(args, 3 + numkeys, Len(args) - 3 - numkeys)
             /\ fakeSess' = updateFakeClient(fakeSess, s)
             /\ pc' = "locking" /\ frame' = fr /\ result' = NoResult
             /\ trace' = t2 \o <<"luaSetGlobalArray", "updateFakeClient", "guard">>
  /\ UNCHANGED <<inuse, lua_timedout, hook, luaTimeLimit, locks, call, evaled, codecVars, scriptVars>>

(***************************************************************************)
(* evalGenericCommand, lines 1079-1098: lock all declared keys, then arm   *)
(* the count hook.  A failed request returns through the scope guard.      *)
(***************************************************************************)
\* the runner going on whatever the lock manager answered
LocklistNotOk_Ignored(status) == FALSE

\* !locklist.ok() (line 1087)
LocklistNotOk(status) == status # "ok"

\* a runner that arms the hook whatever the limit
HookWanted_Always(limit) == TRUE

\* line 1095: the count hook is armed for a positive time limit
HookWanted(limit) == limit > 0

evalGenericCommand_Lock(fail) ==
  /\ pc = "locking"
  /\ LET keys == KeysAt(frame.args, keyidx(frame.numkeys))
         granted == ~fail /\ CanGrant(locks, Self, keys, EvalLockMode)
         status == IF granted THEN "ok" ELSE "failed"
     IN /\ locks' = IF granted THEN Grant(locks, Self, keys, EvalLockMode) ELSE locks
        /\ IF LocklistNotOk(status)
           THEN /\ top' = top - 2
                /\ result' = Failure(<<"getAllKeysLocked failed">>)
                /\ sess' = NoSess
                /\ pc' = "done"
                /\ frame' = [frame EXCEPT !.locklist = status]
                /\ trace' = trace \o <<"getAllKeysLocked">>
                /\ UNCHANGED hook
           ELSE /\ frame' = [frame EXCEPT !.locklist = status,
                                          !.delhook = IF HookWanted(luaTimeLimit) THEN 1 ELSE 0]
                /\ hook' = IF HookWanted(luaTimeLimit) THEN TRUE ELSE hook
                /\ pc' = "running"
                /\ trace' = trace \o <<"getAllKeysLocked">>
                                  \o (IF HookWanted(luaTimeLimit) THEN <<"lua_sethook">> ELSE <<>>)
                                  \o <<"lua_pcall">>
                /\ UNCHANGED <<top, result, sess>>
  /\ UNCHANGED <<fakeSess, inuse, lua_random_dirty, lua_write_dirty, lua_replicate_commands,
                 lua_timedout, rand, funcs, KEYS, ARGV, luaTimeLimit, exec, call, lastRet,
                 evaled, codecVars, scriptVars>>

(***************************************************************************)
(* evalGenericCommand, lines 1103-1134: lua_pcall has returned, with an    *)
(* error (err # 0, message msg) or with the script's return value.         *)
(***************************************************************************)
\* a runner that leaves the timeout flag as the hook left it
TimedoutAfterRun_Kept(flag) == flag

\* lines 1106-1111: the timeout flag once lua_pcall has returned
TimedoutAfterRun(flag) == IF flag # 0 THEN 0 ELSE flag

evalGenericCommand_Finish(err, msg, retval) ==
  /\ pc \in {"running", "raised"}
  /\ hook' = IF frame.delhook = 1 THEN FALSE ELSE hook
  /\ lua_timedout' = TimedoutAfterRun(lua_timedout)
  /\ result' = IF err # 0
               THEN Failure(<<"Error running script (call to ", frame.funcname, "):">> \o msg)
               ELSE Reply(luaReplyToRedisReply(retval))
  \* lua_pcall has replaced the function by the reply or the error message;
  \* lines 1126 and 1131-1132
  /\ top' = IF err # 0 THEN top - 2 ELSE top + luaReplyToRedisReply_Depth(retval) - 1
  /\ sess' = NoSess
  /\ locks' = Release(locks, Self)
  /\ frame' = [frame EXCEPT !.locklist = "released"]
  /\ evaled' = IF err = 0 /\ frame.evalsha = 0 THEN evaled \cup {Arg(frame.args, 1)} ELSE evaled
  /\ pc' = "done"
  /\ trace' = trace \o <<"return">>
  /\ lastRet' = LuaNil
  /\ icount' = 0 /\ randOut' = <<>>
  /\ UNCHANGED <<fakeSess, inuse, lua_random_dirty, lua_write_dirty, lua_replicate_commands,
                 rand, funcs, KEYS, ARGV, luaTimeLimit, exec, call, codecVars,
                 luaKill, stopped>>

\* values a script body returns
ScriptReturns == {LuaNil, LuaNumber(1, FALSE), LuaString(<<"a">>),
                  SingleFieldTable("ok", LuaString(<<"O", "K">>)),
                  SingleFieldTable("err", LuaString(<<"b", "a", "d">>)),
                  LuaTable(EmptyMap, <<LuaNumber(1, FALSE), LuaNumber(2, FALSE)>>)}

\* the script body returns a value: one of its own, or what its last
\* gateway call returned
ScriptReturn(v) ==
  /\ pc = "running"
  /\ v \in ScriptReturns \cup {lastRet}
  /\ evalGenericCommand_Finish(0, <<>>, v)

\* tables within tables, and tables whose err or ok field is no string
NestedReturns ==
  {LuaTable(EmptyMap, <<LuaTable(EmptyMap, <<LuaString(<<"a">>)>>), LuaNumber(1, FALSE)>>),
   LuaTable(EmptyMap, <<SingleFieldTable("ok", LuaString(<<"O", "K">>)),
                        SingleFieldTable("err", LuaString(<<"b", "a", "d">>))>>),
   LuaTable(EmptyMap, <<LuaTable(EmptyMap, <<LuaTable(EmptyMap, <<>>)>>)>>),
   SingleFieldTable("err", LuaNumber(1, FALSE)),
   LuaTable([k \in {"ok"} |-> LuaBool(TRUE)], <<LuaBool(FALSE), LuaNil>>)}

\* the script body returns one of them
ScriptReturnsNested(v) ==
  /\ pc = "running"
  /\ v \in NestedReturns
  /\ evalGenericCommand_Finish(0, <<>>, v)

\* the script body raises an error of its own
ScriptError ==
  /\ pc = "running"
  /\ evalGenericCommand_Finish(1, <<"@user_script:1: ", "script error">>, LuaNil)

\* the caller has taken the returned Expected<std::string>
Return ==
  /\ pc = "done"
  /\ pc' = "idle" /\ frame' = NoFrame /\ result' = NoResult /\ trace' = <<>>
  /\ luaKill' = FALSE
  /\ UNCHANGED <<stateVars, luaVars, envVars, call, lastRet, evaled, codecVars,
                 stopped, icount, randOut>>

(***************************************************************************)
(* The other owner of key locks.                                           *)
(***************************************************************************)
OtherLock(k, m) ==
  /\ \A l \in locks : ~(l.owner = Other /\ l.key = k)
  /\ CanGrant(locks, Other, {k}, m)
  /\ locks' = Grant(locks, Other, {k}, m)
  /\ UNCHANGED <<stateVars, luaVars, luaTimeLimit, exec, ctlVars, evaled, codecVars, scriptVars>>

OtherUnlock(k) ==
  /\ \E l \in locks : l.owner = Other /\ l.key = k
  /\ locks' = {l \in locks : ~(l.owner = Other /\ l.key = k)}
  /\ UNCHANGED <<stateVars, luaVars, luaTimeLimit, exec, ctlVars, evaled, codecVars, scriptVars>>

(***************************************************************************)
(* A second engine instance, seen through the lock manager: lines 1079-1092*)
(* of its evalGenericCommand ask for all keys its invocation declares in   *)
(* one request; its script runs while it holds them, and its return gives  *)
(* them back.  A request that is refused ends its invocation at once.      *)
(***************************************************************************)
PeerExecuting == \E l \in locks : l.owner = Other

PeerLock(args) ==
  /\ ~PeerExecuting
  /\ LET keys == KeysAt(args, keyidx(stoll(Arg(args, 2)).value))
     IN /\ CanGrant(locks, Other, keys, EvalLockMode)
        /\ locks' = Grant(locks, Other, keys, EvalLockMode)
  /\ UNCHANGED <<stateVars, luaVars, luaTimeLimit, exec, ctlVars, evaled, codecVars, scriptVars>>

PeerReturn ==
  /\ PeerExecuting
  /\ locks' = Release(locks, Other)
  /\ UNCHANGED <<stateVars, luaVars, luaTimeLimit, exec, ctlVars, evaled, codecVars, scriptVars>>

(***************************************************************************)
(* Command table and executor (Command::precheck, commandMap,              *)
(* Command::runSessionCmd).                                                *)
(***************************************************************************)
CMD_WRITE == "CMD_WRITE"
CMD_RANDOM == "CMD_RANDOM"
CMD_NOSCRIPT == "CMD_NOSCRIPT"
CMD_SORT_FOR_SCRIPT == "CMD_SORT_FOR_SCRIPT"

CommandNames == {"set", "randomkey", "spop", "smembers", "multi"}

getFlags(name) ==
  CASE name = "set" -> {CMD_WRITE}
    [] name = "randomkey" -> {CMD_RANDOM}
    [] name = "spop" -> {CMD_WRITE, CMD_RANDOM}
    [] name = "smembers" -> {CMD_SORT_FOR_SCRIPT}
    [] name = "multi" -> {CMD_NOSCRIPT}
    [] OTHER -> {}

\* toLower on a command name
toLower(name) == IF name = "SET" THEN "set" ELSE name

\* Command::precheck: the command must exist
precheck(args) ==
  IF toLower(args[1][1]) \in CommandNames
  THEN [ok |-> TRUE, text |-> <<>>]
  ELSE [ok |-> FALSE, text |-> WireError(<<"ERR unknown command">>)]

\* what Command::runSessionCmd comes back with: a failed Status (ok FALSE,
\* text its toString) or the reply bytes
ExecOutcomes ==
  {[ok |-> FALSE, text |-> WireError(<<"ERR executor failed">>)],
   [ok |-> TRUE, text |-> WireStatus(<<"O", "K">>)],
   [ok |-> TRUE, text |-> WireError(<<"ERR wrong type">>)],
   [ok |-> TRUE, text |-> WireArray(<<WireBulk(<<"b">>), WireBulk(<<"a">>)>>)],
   [ok |-> TRUE, text |-> WireArray(<<WireBulk(<<"a">>), WireNilBulk>>)],
   [ok |-> TRUE, text |-> WireArray(<<WireNilBulk, WireBulk(<<>>)>>)],
   [ok |-> TRUE, text |-> WireNilArray]}

(***************************************************************************)
(* Helpers of the gateway.                                                 *)
(***************************************************************************)
\* luaPushError: {err = "<source>: <line>: <error>"}, the caller being a script
luaPushError(error) == SingleFieldTable("err", LuaString(<<"@user_script: 1: ", error>>))

\* luaRaiseError: the message lua_error is raised with, the table's err field;
\* lua_gettable on a value that is no table raises an error of its own
luaRaiseError(tbl) ==
  IF tbl.t = "table" THEN GetField(tbl, "err")
  ELSE LuaString(<<"attempt to index a ", tbl.t, " value">>)

\* snprintf(dbuf, "%.17g", num)
FormatG17(num) == IF num.frac THEN <<ll2string(num.n), ".5">> ELSE <<ll2string(num.n)>>

\* the conversion loop over the Lua arguments: stops at the first argument
\* that is neither a number nor a string
RECURSIVE ConvertArgs(_, _)
ConvertArgs(argv, acc) ==
  IF argv = <<>> THEN acc
  ELSE IF Head(argv).t = "number" THEN ConvertArgs(Tail(argv), Append(acc, FormatG17(Head(argv))))
  ELSE IF Head(argv).t = "string" THEN ConvertArgs(Tail(argv), Append(acc, Head(argv).s))
  ELSE acc

\* order of the bytes that occur in sorted replies
ByteRank(c) == CASE c = "a" -> 1 [] c = "b" -> 2 [] OTHER -> 0

RECURSIVE BytesLess(_, _)
BytesLess(x, y) ==
  IF y = <<>> THEN FALSE
  ELSE IF x = <<>> THEN TRUE
  ELSE IF ByteRank(Head(x)) # ByteRank(Head(y)) THEN ByteRank(Head(x)) < ByteRank(Head(y))
  ELSE BytesLess(Tail(x), Tail(y))

\* __redis__compare_helper: false compares as the empty string
SortKey(v) == IF v.t = "string" THEN v.s ELSE <<>>
compare_helper(a, b) == BytesLess(SortKey(a), SortKey(b))

\* v put in front of the sorted elements that are not less than it: elements
\* that compare equal keep the order they came in, as table.sort leaves them
\* in an array of two
RECURSIVE InsertSorted(_, _)
InsertSorted(sorted, v) ==
  IF sorted = <<>> THEN <<v>>
  ELSE IF compare_helper(Head(sorted), v) THEN <<Head(sorted)>> \o InsertSorted(Tail(sorted), v)
  ELSE <<v>> \o sorted

RECURSIVE table_sort(_)
table_sort(q) == IF q = <<>> THEN <<>> ELSE InsertSorted(table_sort(Tail(q)), Head(q))

\* a sort that leaves the array as it came
luaSortArray_Untouched(tbl) == tbl

\* luaSortArray: table.sort(array), retried with the helper when the array
\* holds false elements; the elements are strings or false
luaSortArray(tbl) ==
  LET n == Cardinality(DOMAIN tbl.arr)
  IN LuaTable(tbl.str, table_sort([i \in 1..n |-> tbl.arr[i]]))

\* the gate testing the replication mode the wrong way round
WriteGated_ModeInverted(flags, random_dirty, replicate_commands) ==
  CMD_WRITE \in flags /\ random_dirty # 0 /\ replicate_commands # 0

\* the condition under which a write command is refused (lines 409-410)
WriteGated(flags, random_dirty, replicate_commands) ==
  CMD_WRITE \in flags /\ random_dirty # 0 /\ replicate_commands = 0

\* the condition under which the reply is sorted (lines 470-473)
SortForScript(flags, replicate_commands, text) ==
  /\ CMD_SORT_FOR_SCRIPT \in flags
  /\ replicate_commands = 0
  /\ Len(text) > 1 /\ text[1] = "*" /\ text[2] # "-"

\* a guard that lets the first recursive call through
InUse_OffByOne(flag) == flag > 1

\* the recursion guard (line 316)
InUse(flag) == flag # 0

\* a gateway that leaves the dirty flags to the executor
DirtyOnDispatch_Unset(flagged, dirty) == dirty

\* lines 418-423: a dirty flag once a command carrying its flag passed the checks
DirtyOnDispatch(flagged, dirty) == IF flagged THEN 1 ELSE dirty

MkCall(args, raise_error) ==
  [active |-> TRUE, args |-> args, name |-> toLower(args[1][1]),
   raise_error |-> raise_error, nested |-> LuaNil]

(***************************************************************************)
(* luaRedisGenericCommand, lines 299-423: everything up to the dispatch.   *)
(* ret is what the call leaves on the stack; raised says whether it left   *)
(* through lua_error.                                                      *)
(***************************************************************************)
\* the call returns or raises without reaching the executor
GatewayStops(ret, raise) ==
  /\ lastRet' = IF raise # 0 THEN luaRaiseError(ret) ELSE ret
  /\ pc' = IF raise # 0 THEN "raised" ELSE "running"
  /\ UNCHANGED <<inuse, call, exec, lua_random_dirty, lua_write_dirty>>

luaRedisGenericCommand(argv, raise_error) ==
  /\ pc = "running"
  /\ fakeSess' = updateFakeClient(fakeSess, sess)
  /\ LET argc == Len(argv)
         args == ConvertArgs(argv, <<>>)
         pre == precheck(args)
         flags == getFlags(toLower(args[1][1]))
     IN IF InUse(inuse)
        THEN /\ lastRet' = luaPushError("luaRedisGenericCommand() recursive call detected.")
             /\ UNCHANGED <<pc, inuse, call, exec, lua_random_dirty, lua_write_dirty>>
        ELSE IF argc = 0
        THEN GatewayStops(luaPushError("Please specify at least one argument for redis.call()"),
                          raise_error)
        ELSE IF Len(args) # argc
        THEN GatewayStops(luaPushError("Lua redis() command arguments must be strings or integers"),
                          raise_error)
        ELSE IF ~pre.ok
        THEN GatewayStops(redisProtocolToLuaType(pre.text, 1).v, raise_error)
        ELSE IF CMD_NOSCRIPT \in flags
        THEN GatewayStops(luaPushError("This Redis command is not allowed from scripts"),
                          raise_error)
        ELSE IF WriteGated(flags, lua_random_dirty, lua_replicate_commands)
        THEN GatewayStops(luaPushError("Write commands not allowed after non deterministic commands."),
                          raise_error)
        ELSE /\ inuse' = inuse + 1
             /\ lua_random_dirty' = DirtyOnDispatch(CMD_RANDOM \in flags, lua_random_dirty)
             /\ lua_write_dirty' = DirtyOnDispatch(CMD_WRITE \in flags, lua_write_dirty)
             /\ call' = MkCall(args, raise_error)
             /\ exec' = [random |-> exec.random \/ CMD_RANDOM \in flags,
                         writeAfterRandom |-> exec.writeAfterRandom
                                                \/ (exec.random /\ CMD_WRITE \in flags),
                         dispatched |-> TRUE]
             /\ pc' = "dispatch"
             /\ lastRet' = LuaNil
  /\ UNCHANGED <<sess, lua_replicate_commands, lua_timedout, rand, luaVars, luaTimeLimit,
                 locks, frame, result, trace, evaled, codecVars, scriptVars>>

(***************************************************************************)
(* luaRedisGenericCommand, lines 444-478 and the scope guard of line 367:  *)
(* Command::runSessionCmd has returned.                                    *)
(***************************************************************************)
\* a gateway that keeps raise_error whatever the reply
RaiseErrorAfterReply_Kept(raise_error, value) == raise_error

\* lines 459-461: raise_error once the executor has answered with value
RaiseErrorAfterReply(raise_error, value) ==
  IF raise_error # 0 /\ Len(value) > 0 /\ value[1] # "-" THEN 0 ELSE raise_error

luaRedisGenericCommand_Dispatch(expect) ==
  /\ pc = "dispatch"
  /\ LET flags == getFlags(call.name)
         raise == IF expect.ok THEN RaiseErrorAfterReply(call.raise_error, expect.text)
                  ELSE call.raise_error
         decoded == redisProtocolToLuaType(expect.text, 1).v
         ret == IF expect.ok /\ SortForScript(flags, lua_replicate_commands, expect.text)
                THEN luaSortArray(decoded) ELSE decoded
     IN /\ lastRet' = IF raise # 0 THEN luaRaiseError(ret) ELSE ret
        /\ pc' = IF raise # 0 THEN "raised" ELSE "running"
  /\ inuse' = inuse - 1
  /\ call' = NoCall
  /\ UNCHANGED <<sess, fakeSess, lua_random_dirty, lua_write_dirty, lua_replicate_commands,
                 lua_timedout, rand, luaVars, envVars, frame, result, trace, evaled,
                 codecVars, scriptVars>>

(***************************************************************************)
(* A gateway call made while another one is waiting for the executor (a    *)
(* debug hook calling redis.call): lines 303-323 with inuse set.           *)
(***************************************************************************)
luaRedisGenericCommand_Nested(argv, raise_error) ==
  /\ pc = "dispatch"
  /\ call.nested = LuaNil
  /\ fakeSess' = updateFakeClient(fakeSess, sess)
  /\ IF InUse(inuse)
     THEN /\ call' = [call EXCEPT !.nested =
                        luaPushError("luaRedisGenericCommand() recursive call detected.")]
          /\ UNCHANGED inuse
     ELSE /\ call' = [call EXCEPT !.nested = LuaBool(TRUE)]
          /\ inuse' = inuse + 1
  /\ UNCHANGED <<sess, lua_random_dirty, lua_write_dirty, lua_replicate_commands,
                 lua_timedout, rand, luaVars, envVars, pc, frame, lastRet, result,
                 trace, evaled, codecVars, scriptVars>>

\* the argument lists scripts call the gateway with
CallArgs == {<<>>,
             <<LuaString(<<"set">>), LuaBool(TRUE)>>,
             <<LuaString(<<"SET">>), LuaString(<<"foo">>), LuaNumber(1, TRUE)>>,
             <<LuaString(<<"randomkey">>)>>,
             <<LuaString(<<"spop">>), LuaString(<<"foo">>)>>,
             <<LuaString(<<"smembers">>), LuaString(<<"foo">>)>>,
             <<LuaString(<<"multi">>)>>,
             <<LuaString(<<"nosuch">>)>>}

\* redis.call(...) and redis.pcall(...)
luaRedisCallCommand(argv) == luaRedisGenericCommand(argv, 1)
luaRedisPCallCommand(argv) == luaRedisGenericCommand(argv, 0)

\* the error raised by redis.call is caught by a pcall of the script
ScriptCatches ==
  /\ pc = "raised"
  /\ pc' = "running"
  /\ lastRet' = LuaNil
  /\ UNCHANGED <<stateVars, luaVars, envVars, frame, call, result, trace, evaled,
                 codecVars, scriptVars>>

\* __redis__err__handler: the message with the caller's source and line in front
err_handler(msg) == <<"@user_script:1: ">> \o msg

\* the error raised by redis.call reaches lua_pcall of evalGenericCommand
\* the handler applied to the error value: a value that is no string makes
\* its concatenation fail, and the handler then runs on that failure's message
ErrorText(v) == IF v.t = "string" THEN err_handler(v.s)
                ELSE err_handler(<<"attempt to concatenate local 'err'">>)

ScriptPropagates ==
  /\ pc = "raised"
  /\ evalGenericCommand_Finish(1, ErrorText(lastRet), LuaNil)

(***************************************************************************)
(* The running script between gateway calls: instructions, the count hook  *)
(* (luaMaskCountHook), math.random / math.randomseed, and the script       *)
(* control flags of the ScriptManager.                                     *)
(***************************************************************************)
HookCount == 2     \* the hook fires every HookCount instructions (100000 in the source)
MaxDraws == 2      \* most math.random calls of one invocation

\* trace with the event e recorded once
Once(tr, e) == IF \E i \in 1..Len(tr) : tr[i] = e THEN tr ELSE Append(tr, e)

\* the script executes one instruction that touches nothing of the engine
ScriptStep ==
  /\ pc = "running"
  /\ ~hook \/ icount < HookCount - 1
  /\ icount' = (icount + 1) % HookCount
  /\ UNCHANGED <<stateVars, luaVars, envVars, ctlVars, histVars, luaKill, stopped,
                 randOut, codecVars>>

\* the value under the top of the stack when the hook calls lua_error without
\* pushing a message (line 993): whatever the running function left there
HookGarbage == {LuaNil, LuaString(<<"KEYS">>)}

\* luaMaskCountHook; reached: elapsed >= luaTimeLimit
luaMaskCountHook(reached, garbage) ==
  /\ pc = "running" /\ hook
  /\ icount = HookCount - 1
  /\ icount' = 0
  /\ lua_timedout' = IF reached /\ lua_timedout = 0 THEN 1 ELSE lua_timedout
  /\ LET t1 == IF reached /\ lua_timedout = 0 THEN Once(trace, "lua_timedout") ELSE trace
     IN IF luaKill
        THEN /\ lastRet' = LuaString(<<"Script killed by user with SCRIPT KILL...">>)
             /\ pc' = "raised"
             /\ trace' = Once(t1, "lua_error")
        ELSE IF stopped
        THEN /\ lastRet' = garbage
             /\ pc' = "raised"
             /\ trace' = Once(t1, "lua_error")
        ELSE /\ trace' = t1
             /\ UNCHANGED <<pc, lastRet>>
  /\ UNCHANGED <<sess, fakeSess, inuse, lua_random_dirty, lua_write_dirty,
                 lua_replicate_commands, rand, luaVars, envVars, frame, call, result,
                 histVars, luaKill, stopped, randOut, codecVars>>

(***************************************************************************)
(* The deterministic generator _rand (redis_port rand48, 48 bits wide in   *)
(* the source) at a width of RandBits bits.                                *)
(***************************************************************************)
RandBits == 6
RandMod == 2 ^ RandBits
REDIS_LRAND48_MAX == (RandMod \div 2) - 1

\* _rand.redisLrand48(): advance the state; the value is its upper bits
redisLrand48_next(x) == (45 * x + 11) % RandMod
redisLrand48_value(x) == redisLrand48_next(x) \div 2

\* what math.random pushes for a draw: the numerator of r with no argument
\* (u = 0), floor(r * u) + 1 with the upper limit u
RandomResult(draw, u) ==
  LET num == draw % REDIS_LRAND48_MAX
  IN IF u = 0 THEN num ELSE ((num * u) \div REDIS_LRAND48_MAX) + 1

\* math.random() and math.random(u)
redis_math_random(u) ==
  /\ pc = "running"
  /\ Len(randOut) < MaxDraws
  /\ rand' = redisLrand48_next(rand)
  /\ randOut' = Append(randOut, [u |-> u, value |-> RandomResult(redisLrand48_value(rand), u)])
  /\ UNCHANGED <<sess, fakeSess, inuse, lua_random_dirty, lua_write_dirty,
                 lua_replicate_commands, lua_timedout, luaVars, envVars, ctlVars,
                 histVars, luaKill, stopped, icount, codecVars>>

\* math.randomseed(seed)
redis_math_randomseed(seed) ==
  /\ pc = "running"
  /\ rand' = redisSrand48(seed)
  /\ trace' = Once(trace, "randomseed")
  /\ UNCHANGED <<sess, fakeSess, inuse, lua_random_dirty, lua_write_dirty,
                 lua_replicate_commands, lua_timedout, luaVars, envVars, pc, frame, call,
                 lastRet, result, histVars, scriptVars, codecVars>>

\* SCRIPT KILL while a script runs, and the server starting to stop
ScriptKill ==
  /\ pc = "running" /\ ~luaKill
  /\ luaKill' = TRUE
  /\ UNCHANGED <<stateVars, luaVars, envVars, ctlVars, histVars, stopped, icount,
                 randOut, codecVars>>

ServerStop ==
  /\ pc \in {"idle", "running"} /\ ~stopped
  /\ stopped' = TRUE
  /\ UNCHANGED <<stateVars, luaVars, envVars, ctlVars, histVars, luaKill, icount,
                 randOut, codecVars>>

(***************************************************************************)
(* Specifications.                                                         *)
(***************************************************************************)
TimeLimits == {0, 5000}

CodecOff == cpc = "off" /\ cx = <<>> /\ cval = LuaNil /\ cout = <<>>

Init == EngineInit /\ CodecOff /\ luaTimeLimit \in TimeLimits

Eval ==
  \E s \in Sessions, a \in ArgVectors(0) :
    evalGenericCommand_Resolve(s, a, 0, "?", TRUE)

EvalSha ==
  \E s \in Sessions, a \in ArgVectors(1), garbage \in StackGarbage :
    evalGenericCommand_Resolve(s, a, 1, garbage, FALSE)

Next ==
  \/ Eval
  \/ EvalSha
  \/ \E fail \in BOOLEAN : evalGenericCommand_Lock(fail)
  \/ \E v \in ScriptReturns \cup {lastRet} : ScriptReturn(v)
  \/ ScriptError
  \/ \E argv \in CallArgs : luaRedisCallCommand(argv)
  \/ \E argv \in CallArgs : luaRedisPCallCommand(argv)
  \/ \E expect \in ExecOutcomes : luaRedisGenericCommand_Dispatch(expect)
  \/ \E argv \in CallArgs, raise_error \in {0, 1} : luaRedisGenericCommand_Nested(argv, raise_error)
  \/ ScriptCatches
  \/ ScriptPropagates
  \/ Return
  \/ \E k \in OtherKeys, m \in LockModes : OtherLock(k, m)
  \/ \E k \in OtherKeys : OtherUnlock(k)

vars == <<codecVars, engineVars>>

Spec == Init /\ [][Next]_vars

\* scripts that compute, draw random numbers and are watched by the count
\* hook, and call no command
UpperLimits == {0, 6}
Seeds == {3}

\* the invocations of these scripts: EVAL <body> 1 foo bar
ScriptArgVectors == {a \in ArgVectors(0) : Arg(a, 2) = <<"1">>}

EvalScript ==
  \E s \in Sessions, a \in ScriptArgVectors :
    evalGenericCommand_Resolve(s, a, 0, "?", TRUE)

NextScript ==
  \/ EvalScript
  \/ \E fail \in BOOLEAN : evalGenericCommand_Lock(fail)
  \/ ScriptStep
  \/ \E reached \in BOOLEAN, garbage \in HookGarbage : luaMaskCountHook(reached, garbage)
  \/ \E u \in UpperLimits : redis_math_random(u)
  \/ \E seed \in Seeds : redis_math_randomseed(seed)
  \/ \E v \in ScriptReturns \cup {lastRet} : ScriptReturn(v)
  \/ ScriptError
  \/ ScriptCatches
  \/ ScriptPropagates
  \/ Return
  \/ ScriptKill
  \/ ServerStop

SpecScript == Init /\ [][NextScript]_vars

\* invocations by sessions that differ in authentication and selected
\* database, their scripts calling commands through the gateway
AllSessions == {[authed |-> a, dbId |-> d] : a \in BOOLEAN, d \in {0, 1}}
SessCallArgs == {argv \in CallArgs : Len(argv) = 2}

EvalAs ==
  \E s \in AllSessions, a \in ScriptArgVectors :
    evalGenericCommand_Resolve(s, a, 0, "?", TRUE)

NextSess ==
  \/ EvalAs
  \/ \E fail \in BOOLEAN : evalGenericCommand_Lock(fail)
  \/ \E v \in ScriptReturns \cup {lastRet} : ScriptReturn(v)
  \/ \E argv \in SessCallArgs : luaRedisCallCommand(argv)
  \/ \E argv \in SessCallArgs : luaRedisPCallCommand(argv)
  \/ \E expect \in ExecOutcomes : luaRedisGenericCommand_Dispatch(expect)
  \/ ScriptCatches
  \/ ScriptPropagates
  \/ Return

SpecSess == Init /\ [][NextSess]_vars

\* scripts that loop for ever: the body never returns and never raises an
\* error of its own, it may catch the errors raised into it
HookFires == \E reached \in BOOLEAN, garbage \in HookGarbage : luaMaskCountHook(reached, garbage)

NextLoop ==
  \/ EvalScript
  \/ \E fail \in BOOLEAN : evalGenericCommand_Lock(fail)
  \/ ScriptStep
  \/ HookFires
  \/ ScriptCatches
  \/ ScriptPropagates
  \/ Return
  \/ ScriptKill
  \/ ServerStop

\* the interpreter keeps executing instructions, the hook fires when its
\* count is reached, and an error nobody catches reaches lua_pcall
SpecLoop ==
  /\ Init /\ [][NextLoop]_vars
  /\ WF_vars(ScriptStep) /\ WF_vars(HookFires) /\ WF_vars(ScriptPropagates)

CodecStart == CodecInit /\ EngineInit /\ luaTimeLimit = 0

SpecCodec == CodecStart /\ [][CodecNext]_vars

\* scripts that call commands through the gateway and reseed the generator:
\* EVAL <body> 1 foo bar, EVAL <body> 2 foo bar, and EVAL <body> 3 foo bar,
\* which is rejected
GateArgVectors ==
  {a \in ArgVectors(0) : Arg(a, 1) \in GoodBodies /\ Arg(a, 2) \in {<<"1">>, <<"2">>, <<"3">>}}

EvalGate ==
  \E s \in Sessions, a \in GateArgVectors :
    evalGenericCommand_Resolve(s, a, 0, "?", TRUE)

NextGate ==
  \/ EvalGate
  \/ \E fail \in BOOLEAN : evalGenericCommand_Lock(fail)
  \/ \E v \in ScriptReturns \cup {lastRet} : ScriptReturn(v)
  \/ \E argv \in CallArgs : luaRedisCallCommand(argv)
  \/ \E argv \in CallArgs : luaRedisPCallCommand(argv)
  \/ \E expect \in ExecOutcomes : luaRedisGenericCommand_Dispatch(expect)
  \/ \E argv \in CallArgs, raise_error \in {0, 1} : luaRedisGenericCommand_Nested(argv, raise_error)
  \/ \E seed \in Seeds : redis_math_randomseed(seed)
  \/ ScriptCatches
  \/ ScriptPropagates
  \/ Return

SpecGate == Init /\ [][NextGate]_vars

\* two engine instances on one lock manager: their invocations declare
\* foo, bar or both, the second instance naming them in the other order
IsoArgVectors == {a \in ArgVectors(0) : Arg(a, 1) \in GoodBodies /\ Arg(a, 2) \in {<<"1">>, <<"2">>}}
PeerArgVectors ==
  {<<"eval", b, nk>> \o tail : b \in GoodBodies, nk \in {<<"1">>, <<"2">>},
                                tail \in {<<"bar", "foo">>, <<"foo", "bar">>}}

EvalIso ==
  \E s \in Sessions, a \in IsoArgVectors :
    evalGenericCommand_Resolve(s, a, 0, "?", TRUE)

NextIso ==
  \/ EvalIso
  \/ \E fail \in BOOLEAN : evalGenericCommand_Lock(fail)
  \/ \E v \in ScriptReturns \cup {lastRet} : ScriptReturn(v)
  \/ ScriptError
  \/ Return
  \/ \E a \in PeerArgVectors : PeerLock(a)
  \/ PeerReturn

SpecIso == Init /\ [][NextIso]_vars

\* every way evalGenericCommand returns: EVAL and EVALSHA, one declared
\* key, bodies that compile or not, digests known or not, locks granted or
\* not, scripts that fail or return values of every shape
StackArgVectors(evalsha) == {a \in ArgVectors(evalsha) : Arg(a, 2) \in {<<"1">>, <<"x">>}}

EvalStack ==
  \E s \in Sessions, a \in StackArgVectors(0) :
    evalGenericCommand_Resolve(s, a, 0, "?", TRUE)

EvalShaStack ==
  \E s \in Sessions, a \in StackArgVectors(1), garbage \in StackGarbage :
    evalGenericCommand_Resolve(s, a, 1, garbage, FALSE)

NextStack ==
  \/ EvalStack
  \/ EvalShaStack
  \/ \E fail \in BOOLEAN : evalGenericCommand_Lock(fail)
  \/ \E v \in ScriptReturns \cup {lastRet} : ScriptReturn(v)
  \/ \E v \in NestedReturns : ScriptReturnsNested(v)
  \/ ScriptError
  \/ Return

SpecStack == Init /\ [][NextStack]_vars

(***************************************************************************)
(* Properties.                                                             *)
(***************************************************************************)
Range(q) == {q[i] : i \in 1..Len(q)}

\* v is an error table, or a raised error message, carrying the text m
CarriesMessage(v, m) ==
  \/ v.t = "table" /\ GetField(v, "err").t = "string" /\ m \in Range(GetField(v, "err").s)
  \/ v.t = "string" /\ m \in Range(v.s)

\* C1: a returned table with no string 'err' entry and a string 'ok' entry
\* encodes to the status reply '+<text>\r\n', CR and LF in the text replaced
\* by spaces.
C1_OkTableEncodesAsStatus ==
  (/\ cpc \in {"encoded", "roundtrip"}
   /\ cval.t = "table"
   /\ GetField(cval, "err").t # "string"
   /\ GetField(cval, "ok").t = "string")
  => LET text == GetField(cval, "ok").s
     IN cout = <<"+">> \o [i \in 1..Len(text) |-> IF text[i] \in {CR, LF} THEN " " ELSE text[i]]
                       \o CRLF

\* C2: encode(decode(x)) = x for every Integer, Bulk (nil bulk included),
\* Status and Error reply x, and for every non-nil Array reply x whose
\* elements all round-trip.
C2_RoundTrip ==
  cpc = "roundtrip" =>
    /\ cx \in WireScalars => cout = cx
    /\ \A elems \in SeqsUpTo(WireElems, MaxArr) :
         (/\ cx = WireArray(elems)
          /\ \A i \in 1..Len(elems) :
               luaReplyToRedisReply(redisProtocolToLuaType(elems[i], 1).v) = elems[i])
         => cout = cx

\* C3: a hash-only invocation whose digest argument names a function an
\* earlier EVAL defined takes its function name from that argument, finds
\* the function and is not answered NOSCRIPT.
C3_EvalShaFindsCached ==
  (/\ frame.active /\ frame.evalsha = 1
   /\ "lua_getglobal" \in Range(trace)
   /\ FuncName(Arg(frame.args, 1)) \in funcs)
  => /\ frame.funcname = FuncName(Arg(frame.args, 1))
     /\ "lua_pcall" \in Range(trace) \/ pc = "locking" \/ frame.locklist = "failed"

\* C4: a hash-only invocation whose digest names no resident function ends
\* in Error with NOSCRIPT; nothing is compiled, KEYS/ARGV are not rebound,
\* no lock is requested and no script code runs.
C4_EvalShaUnknownIsNoScript ==
  (/\ frame.active /\ frame.evalsha = 1
   /\ "lua_getglobal" \in Range(trace)
   /\ FuncName(Arg(frame.args, 1)) \notin funcs)
  => /\ pc = "done"
     /\ result.kind = "err"
     /\ result.msg[1] = "-NOSCRIPT No matching script. Please use EVAL."
     /\ Range(trace) \cap {"luaCreateFunction", "luaSetGlobalArray",
                           "getAllKeysLocked", "lua_pcall"} = {}
     /\ ~exec.dispatched

\* C5: once an EVAL of a body has succeeded on this instance, every later
\* EVAL of that body performs no compilation and, when it gets to the
\* lookup, resolves to the function f_<digest> that is already defined.
C5_ContentAddressing ==
  [][(/\ pc = "idle" /\ pc' # "idle"
      /\ frame'.evalsha = 0
      /\ Arg(frame'.args, 1) \in evaled)
     => /\ "luaCreateFunction" \notin Range(trace')
        /\ funcs' = funcs
        /\ "lua_getglobal" \in Range(trace') =>
             /\ frame'.funcname = FuncName(sha1hex(Arg(frame'.args, 1)))
             /\ frame'.funcname \in funcs
             /\ pc' = "locking"]_vars

C5_Witness ==
  /\ pc = "locking" /\ frame.evalsha = 0
  /\ Arg(frame.args, 1) \in evaled
  /\ "luaCreateFunction" \notin Range(trace)

\* C6: in whole-script replication mode, once the executor has run a
\* CMD_RANDOM command for this invocation, a gateway call of a CMD_WRITE
\* command is answered with the 'Write commands not allowed after non
\* deterministic commands' error and is not dispatched.
C6_WriteAfterRandomRefused ==
  [][\A argv \in CallArgs, raise_error \in {0, 1} :
       (/\ exec.random /\ lua_replicate_commands = 0
        /\ Len(argv) > 0
        /\ \A i \in 1..Len(argv) : argv[i].t \in {"string", "number"}
        /\ CMD_WRITE \in getFlags(toLower(argv[1].s[1]))
        /\ luaRedisGenericCommand(argv, raise_error))
       => /\ exec' = exec
          /\ pc' # "dispatch"
          /\ CarriesMessage(lastRet',
               "Write commands not allowed after non deterministic commands.")]_vars

C6_Witness ==
  /\ exec.random /\ ~exec.writeAfterRandom
  /\ pc \in {"running", "raised"}
  /\ CarriesMessage(lastRet, "Write commands not allowed after non deterministic commands.")

\* C7: the busy flag is 0 or 1, it is set exactly while a gateway call is
\* with the executor, a call entered while it is set gets the recursive-call
\* diagnostic and leaves it set, and it is 0 again whenever a gateway call
\* has ended, however it ended.
C7_ReentrancyGuard ==
  /\ inuse \in {0, 1}
  /\ pc = "dispatch" => inuse = 1
  /\ pc # "dispatch" => inuse = 0
  /\ (call.active /\ call.nested # LuaNil)
       => CarriesMessage(call.nested, "luaRedisGenericCommand() recursive call detected.")

C7_Witness ==
  /\ pc = "dispatch" /\ inuse = 1
  /\ CarriesMessage(call.nested, "luaRedisGenericCommand() recursive call detected.")

\* C8: while the script body or a delegated command executes, the invocation
\* holds an exclusive lock on every declared key args[3 .. 3+numkeys); the
\* locks are gone once the invocation has returned.
C8_KeysLockedWhileRunning ==
  /\ pc \in {"running", "dispatch", "raised"} =>
       \A i \in 0..(Len(frame.args) - 1) :
         (3 <= i /\ i < 3 + frame.numkeys) =>
           /\ [owner |-> Self, key |-> Arg(frame.args, i), mode |-> "X"] \in locks
           /\ \A l \in locks : l.key = Arg(frame.args, i) => l.owner = Self
  /\ pc \in {"idle", "done"} => \A l \in locks : l.owner # Self

C8_Witness ==
  /\ pc = "dispatch" /\ frame.numkeys = 2
  /\ \A k \in {"foo", "bar"} : [owner |-> Self, key |-> k, mode |-> "X"] \in locks

\* C9: when the key-lock request fails the invocation ends in Error with the
\* lock manager's status; the function is never called, no command is
\* dispatched, the hook is never registered, no lock is held and the
\* invoking session is detached.
C9_LockFailureAborts ==
  (frame.active /\ frame.locklist = "failed")
  => /\ pc = "done"
     /\ result = Failure(<<"getAllKeysLocked failed">>)
     /\ Range(trace) \cap {"lua_pcall", "lua_sethook"} = {}
     /\ ~exec.dispatched
     /\ ~hook
     /\ \A l \in locks : l.owner # Self
     /\ sess = NoSess

C9_Witness ==
  /\ frame.active /\ frame.locklist = "failed"
  /\ frame.numkeys = 2 /\ luaTimeLimit > 0
  /\ \E l \in locks : l.owner = Other

\* C10: an invocation whose numkeys argument is not an integer, is negative
\* or exceeds len(args) - 3 returns an error before touching the
\* interpreter: no lookup, no compilation, KEYS and ARGV as before, no lock
\* request, no script code.
C10_BadNumkeysRejected ==
  [][(/\ pc = "idle" /\ pc' # "idle"
      /\ LET text == Arg(frame'.args, 2)
         IN \/ \A n \in (-9)..9 : text # ll2string(n)
            \/ \E n \in (-9)..(-1) : text = ll2string(n)
            \/ \E n \in 0..9 : text = ll2string(n) /\ n > Len(frame'.args) - 3)
     => /\ pc' = "done" /\ result'.kind = "err"
        /\ Range(trace') \cap {"lua_getglobal", "luaCreateFunction", "luaSetGlobalArray",
                               "getAllKeysLocked", "lua_pcall"} = {}
        /\ KEYS' = KEYS /\ ARGV' = ARGV /\ funcs' = funcs /\ top' = top
        /\ locks' = locks /\ ~exec'.dispatched]_vars

C10_Witness ==
  /\ pc = "done" /\ result.kind = "err"
  /\ Arg(frame.args, 2) \in {<<"3">>, <<"-", "1">>, <<"x">>}
  /\ KEYS # Unbound

\* the generator state after k draws from the state line 1011 sets
RECURSIVE StateAfterDraws(_)
StateAfterDraws(k) == IF k = 0 THEN redisSrand48(0)
                      ELSE redisLrand48_next(StateAfterDraws(k - 1))

\* C11: in an invocation that has not called math.randomseed, the i-th value
\* math.random returns is the i-th value of the stream that starts from seed
\* 0, whatever state earlier invocations left the generator in; so any two
\* invocations of such a script see the same sequence.
C11_RngDeterminism ==
  (pc \in {"running", "raised"} /\ ~(\E i \in 1..Len(trace) : trace[i] = "randomseed"))
  => \A i \in 1..Len(randOut) :
       randOut[i].value =
         RandomResult(redisLrand48_value(StateAfterDraws(i - 1)), randOut[i].u)

C11_Witness ==
  /\ pc = "running" /\ frame.reseeded
  /\ ~(\E i \in 1..Len(trace) : trace[i] = "randomseed")
  /\ Len(randOut) = MaxDraws
  /\ \E i \in 1..Len(randOut) : randOut[i].u # 0

\* C12: an invocation in which the hook raised an error, because the kill
\* flag or the stopping flag was set when it fired, ends in Error and never
\* with a success reply.
C12_HookErrorEndsInError ==
  (pc = "done" /\ "lua_error" \in Range(trace)) => result.kind = "err"

\* C13: the hook sets the timeout flag at most once per invocation; a firing
\* with neither the kill flag nor the stopping flag set raises nothing and
\* leaves the script running; the flag is clear whenever no invocation is
\* in progress.
C13_TimeoutAdvisory ==
  [][/\ (lua_timedout = 0 /\ lua_timedout' = 1)
         => /\ pc = "running" /\ pc' \in {"running", "raised"}
            /\ "lua_timedout" \notin Range(trace)
            /\ "lua_timedout" \in Range(trace')
     /\ (lua_timedout = 1 /\ lua_timedout' = 0) => pc' = "done"
     /\ (HookFires /\ ~luaKill /\ ~stopped)
         => /\ pc' = "running" /\ result' = result /\ lastRet' = lastRet
            /\ ("lua_error" \in Range(trace')) = ("lua_error" \in Range(trace))
     /\ pc' \in {"idle", "done"} => lua_timedout' = 0]_vars

C13_Witness ==
  /\ pc = "done" /\ result.kind = "ok"
  /\ "lua_timedout" \in Range(trace)
  /\ "lua_error" \notin Range(trace)
  /\ ~luaKill /\ ~stopped
  /\ lua_timedout = 0

\* C14: a script that never returns on its own is ended in Error once the
\* kill flag or the stopping flag is set and stays set.
C14_KillEndsLoop ==
  (pc = "running" /\ (luaKill \/ stopped)) ~> (pc = "done" /\ result.kind = "err")

\* C15: whenever evalGenericCommand has returned, by whatever path, the
\* engine is detached from the invoking session and the bound session is
\* kept.
C15_SessDetachedOnEveryExit ==
  [][pc' = "done" => (sess' = NoSess /\ (fakeSess # NoSess => fakeSess' # NoSess))]_vars

\* C16: a string encodes to the bulk reply of its bytes, true to ':1\r\n',
\* false to the nil bulk, a number to the integer reply of its integer part,
\* nil and every other non-table value to the nil bulk; the output is
\* exactly one wire reply.
C16_ScalarsEncode ==
  (cpc = "encoded" /\ cval.t # "table")
  => /\ cval.t = "string" => cout = WireBulk(cval.s)
     /\ cval = LuaBool(TRUE) => cout = <<":", "1", CR, LF>>
     /\ cval = LuaBool(FALSE) => cout = WireNilBulk
     /\ cval.t = "number" => cout = WireInt(cval.n)
     /\ cval.t \notin {"string", "boolean", "number"} => cout = WireNilBulk
     /\ redisProtocolToLuaType(cout, 1).p = Len(cout) + 1

C16_Witness ==
  /\ cpc = "encoded"
  /\ cval = LuaNumber(-10, TRUE)
  /\ cout = <<":", "-", "1", "0", CR, LF>>

\* the number of contiguous present indices of a table, starting at 1
ContiguousLen(tbl) ==
  CHOOSE n \in 0..Cardinality(DOMAIN tbl.arr) :
    /\ \A i \in 1..n : i \in DOMAIN tbl.arr
    /\ (n + 1) \notin DOMAIN tbl.arr

\* C17: a table with neither a string 'err' nor a string 'ok' entry encodes
\* to '*N' followed by the encodings of its elements 1..N in order, N being
\* the number of contiguous present indices from 1; entries behind the first
\* missing index are dropped.
C17_ArrayEncode ==
  (/\ cpc \in {"encoded", "roundtrip"}
   /\ cval.t = "table"
   /\ GetField(cval, "err").t # "string"
   /\ GetField(cval, "ok").t # "string")
  => LET N == ContiguousLen(cval)
     IN cout = <<"*">> \o ll2string(N) \o CRLF
                 \o Concat([i \in 1..N |-> luaReplyToRedisReply(cval.arr[i])])

C17_Witness ==
  /\ cpc = "encoded" /\ cval.t = "table"
  /\ DOMAIN cval.str = {"err"} /\ cval.str["err"].t = "number"
  /\ DOMAIN cval.arr = {1, 3}
  /\ cout = <<"*", "1">> \o CRLF \o luaReplyToRedisReply(cval.arr[1])

\* C18: a table with a string 'err' entry encodes to '-<msg>\r\n', every CR
\* and LF of msg replaced by a space, whatever else the table holds.
C18_ErrTableEncodesAsError ==
  (/\ cpc \in {"encoded", "roundtrip"}
   /\ cval.t = "table"
   /\ GetField(cval, "err").t = "string")
  => LET msg == GetField(cval, "err").s
     IN cout = <<"-">> \o [i \in 1..Len(msg) |-> IF msg[i] \in {CR, LF} THEN " " ELSE msg[i]]
                       \o CRLF

\* the elements of the array q in the order p
Permuted(q, p) == [i \in 1..Len(q) |-> q[p[i]]]

\* q is in non-decreasing order of the comparison helper
NonDecreasing(q) == \A i, j \in 1..Len(q) : i < j => ~compare_helper(q[j], q[i])

\* no two different elements of q compare equal
NoTies(q) ==
  \A i, j \in 1..Len(q) :
    q[i] # q[j] => (compare_helper(q[i], q[j]) \/ compare_helper(q[j], q[i]))

\* the decoded reply the executor's answer stands for, and whether the
\* gateway has to sort it
DecodedReply(expect) == redisProtocolToLuaType(expect.text, 1).v
MustSort(name, text) ==
  /\ CMD_SORT_FOR_SCRIPT \in getFlags(name)
  /\ text[1] = "*" /\ text # WireNilArray
  /\ lua_replicate_commands = 0

\* what C19 asks of a gateway call that returns the executor's reply; ties
\* says whether arrays with different elements that compare equal count
SortedForScript(ties) ==
  \A expect \in ExecOutcomes :
    (luaRedisGenericCommand_Dispatch(expect) /\ expect.ok /\ pc' = "running")
    => LET decoded == DecodedReply(expect)
       IN IF MustSort(call.name, expect.text)
          THEN /\ lastRet'.t = "table"
               /\ \E p \in Permutations(1..Len(decoded.arr)) :
                    lastRet'.arr = Permuted(decoded.arr, p)
               /\ NonDecreasing(lastRet'.arr)
               /\ (ties \/ NoTies(decoded.arr))
                    => \A p \in Permutations(1..Len(decoded.arr)) :
                         luaSortArray(LuaTable(EmptyMap, Permuted(decoded.arr, p))) = lastRet'
          ELSE lastRet' = decoded

\* C19 as stated: the gateway sorts the decoded reply exactly when the
\* command is flagged sort-for-script, the reply is a non-nil multi-bulk and
\* the script replicates as a whole; the result is a permutation of the
\* elements in non-decreasing order, false comparing as the empty string,
\* and is the same for every order the executor produces them in.
C19_SortOrderIndependent == [][SortedForScript(TRUE)]_vars

\* C19 amended: the same, the result being the same for every order of the
\* elements provided no two different elements compare equal (the reply
\* does not hold both a nil element and an empty string).
C19_SortForScript == [][SortedForScript(FALSE)]_vars

C19_Witness ==
  /\ pc = "running" /\ exec.dispatched
  /\ lastRet = LuaTable(EmptyMap, <<LuaBool(FALSE), LuaString(<<"a">>)>>)

\* C20: whenever a delegated command is with the executor, the bound session
\* is authenticated exactly if the invoking session is, and has the invoking
\* session's database selected.
C20_BoundSessionInSync ==
  pc = "dispatch" => (fakeSess.authed = sess.authed /\ fakeSess.dbId = sess.dbId)

\* C21: every failing gateway check (reentrancy, zero arguments, an argument
\* that is neither string nor number, precheck, not allowed in scripts, write
\* after a nondeterministic command) dispatches no command; redis.call leaves
\* through an interpreter error carrying the message, redis.pcall returns
\* the error table.
C21_FailingCheckRaisesOrReturns ==
  [][\A argv \in CallArgs, r \in {0, 1} :
       /\ (luaRedisGenericCommand(argv, r) /\ pc' # "dispatch")
            => /\ exec' = exec
               /\ r = 1 => (pc' = "raised" /\ lastRet'.t = "string")
               /\ r = 0 => (pc' = "running" /\ lastRet'.t = "table")
       /\ (luaRedisGenericCommand_Nested(argv, r) /\ InUse(inuse))
            => /\ exec' = exec
               /\ r = 1 => call'.nested.t = "string"
               /\ r = 0 => call'.nested.t = "table"]_vars

\* the executor's answer is a failure: a failed status, or an error reply
ExecutorFailed(expect) == ~expect.ok \/ expect.text[1] = "-"

\* C22: when the delegated command fails (a failed status or an error
\* reply), redis.pcall returns the decoded error table without raising and
\* redis.call raises an interpreter error carrying the message; when it
\* succeeds neither raises and the decoded reply, sorted for a
\* sort-for-script command, is the value the call returns.
C22_DelegatedFailure ==
  [][\A expect \in ExecOutcomes :
       luaRedisGenericCommand_Dispatch(expect)
       => LET decoded == DecodedReply(expect)
          IN IF ExecutorFailed(expect)
             THEN /\ decoded.t = "table" /\ DOMAIN decoded.str = {"err"}
                  /\ call.raise_error = 0 => (pc' = "running" /\ lastRet' = decoded)
                  /\ call.raise_error # 0
                       => (pc' = "raised" /\ lastRet' = decoded.str["err"]
                           /\ lastRet'.t = "string")
             ELSE /\ pc' = "running"
                  /\ IF MustSort(call.name, expect.text)
                     THEN /\ lastRet'.t = "table"
                          /\ \E p \in Permutations(1..Len(decoded.arr)) :
                               lastRet'.arr = Permuted(decoded.arr, p)
                     ELSE lastRet' = decoded]_vars

\* redis.call has raised the message of the executor's error reply
C22_Witness ==
  /\ pc = "raised" /\ exec.dispatched /\ call = NoCall
  /\ lastRet = LuaString(<<"ERR wrong type">>)

\* C23: an EVAL whose body fails to compile or to define ends in Error, the
\* error handed to the client carries the interpreter's own message for the
\* failure, and the run reaches neither the lock request nor the script.
C23_CompileErrorSurfaced ==
  (/\ pc = "done" /\ frame.evalsha = 0
   /\ "luaCreateFunction" \in Range(trace)
   /\ Arg(frame.args, 1) \in SyntaxErrorBodies \cup DefineErrorBodies)
  => LET err == luaCreateFunction(funcs, Arg(frame.args, 1), TRUE).err
     IN /\ result.kind = "err"
        /\ \A i \in 1..Len(err) : err[i] \in Range(result.msg)
        /\ "getAllKeysLocked" \notin Range(trace)
        /\ "lua_pcall" \notin Range(trace)

\* C24: once an invocation is accepted, KEYS holds exactly numkeys entries,
\* KEYS[i] being args[3+i-1], and ARGV holds exactly the len(args)-3-numkeys
\* entries that follow, ARGV[i] being args[3+numkeys+i-1]; nothing an earlier
\* invocation bound is left in either.
C24_KeysArgvPartition ==
  (frame.active /\ "luaSetGlobalArray" \in Range(trace))
  => LET args == frame.args
         n == frame.numkeys
         m == Len(args) - 3 - n
     IN /\ DOMAIN KEYS = 1..n
        /\ \A i \in 1..n : KEYS[i] = Arg(args, 3 + i - 1)
        /\ DOMAIN ARGV = 1..m
        /\ \A i \in 1..m : ARGV[i] = Arg(args, 3 + n + i - 1)

\* an invocation declaring one key, accepted after a successful one
C24_Witness ==
  /\ pc = "running" /\ evaled # {}
  /\ frame.numkeys = 1
  /\ KEYS = <<"foo">> /\ ARGV = <<"bar">>

\* the dirty flags and the generator are as the step found them
EntryStateKept ==
  /\ rand' = rand
  /\ lua_random_dirty' = lua_random_dirty /\ lua_write_dirty' = lua_write_dirty

\* the dirty flags are clear and the generator is at the seed of line 1011
EntryStateReset ==
  /\ rand' = redisSrand48(0)
  /\ lua_random_dirty' = 0 /\ lua_write_dirty' = 0

\* KEYS and ARGV are bound to the arguments of the invocation that starts
BoundToInvocation ==
  /\ KEYS' = [i \in 1..frame'.numkeys |-> Arg(frame'.args, 3 + i - 1)]
  /\ ARGV' = [i \in 1..(Len(frame'.args) - 3 - frame'.numkeys)
                |-> Arg(frame'.args, 3 + frame'.numkeys + i - 1)]

\* C25 as stated: KEYS and ARGV are bound before the key locks are requested
\* and before the generator is reseeded; the reset of the dirty flags and
\* the reseed are part of the step that follows the acquisition of the
\* locks, so the steps before it leave flags and generator alone.
C25_ResetAfterLocks ==
  [][/\ (pc = "idle" /\ pc' = "locking") => (BoundToInvocation /\ locks' = locks)
     /\ (pc = "idle" /\ pc' # "idle") => EntryStateKept
     /\ (pc = "locking" /\ pc' = "running") => EntryStateReset
     /\ (pc = "locking" /\ pc' = "done") => EntryStateKept]_vars

\* C25 amended: the dirty flags are reset and the generator is reseeded on
\* entry, before numkeys is validated, in every invocation, the rejected
\* ones included; KEYS and ARGV are bound after that and before the key
\* locks are requested; the lock request, granted or not, changes neither
\* the flags, the generator nor the bindings.
C25_ResetOnEntryBindBeforeLock ==
  [][/\ (pc = "idle" /\ pc' = "locking") => (BoundToInvocation /\ locks' = locks)
     /\ (pc = "idle" /\ pc' # "idle") => (EntryStateReset /\ locks' = locks)
     /\ pc = "locking" => (EntryStateKept /\ KEYS' = KEYS /\ ARGV' = ARGV)]_vars

\* an invocation that found the generator seeded by an earlier script and
\* then failed to lock its keys: generator reseeded, KEYS and ARGV bound
C25_Witness ==
  /\ pc = "done" /\ result.kind = "err"
  /\ frame.locklist = "failed" /\ frame.reseeded
  /\ rand = redisSrand48(0)
  /\ KEYS = <<"foo", "bar">> /\ ARGV = <<>>

\* C26: both dirty flags are clear when an invocation starts; while it runs
\* each only goes from clear to set, and does so when a gateway call of a
\* nondeterministic, respectively write, command has passed the checks; a
\* write command is refused for the random flag only if a nondeterministic
\* command was dispatched in the same invocation.
C26_DirtyFlagsSticky ==
  [][/\ (pc = "idle" /\ pc' # "idle") => (lua_random_dirty' = 0 /\ lua_write_dirty' = 0)
     /\ pc # "idle" => /\ lua_random_dirty' >= lua_random_dirty
                       /\ lua_write_dirty' >= lua_write_dirty
     /\ (pc # "idle" /\ lua_random_dirty' # lua_random_dirty)
          => (pc = "running" /\ pc' = "dispatch" /\ CMD_RANDOM \in getFlags(call'.name))
     /\ (pc # "idle" /\ lua_write_dirty' # lua_write_dirty)
          => (pc = "running" /\ pc' = "dispatch" /\ CMD_WRITE \in getFlags(call'.name))
     /\ \A argv \in CallArgs, r \in {0, 1} :
          (/\ luaRedisGenericCommand(argv, r)
           /\ CarriesMessage(lastRet',
                "Write commands not allowed after non deterministic commands."))
          => exec.random]_vars

\* a write command dispatched with the random flag clear, in an invocation
\* that follows a successful one
C26_Witness ==
  /\ pc = "dispatch" /\ evaled # {}
  /\ CMD_WRITE \in getFlags(call.name)
  /\ ~exec.random /\ lua_random_dirty = 0 /\ lua_write_dirty = 1

\* C27: while the script of an invocation runs the hook is installed exactly
\* if the configured time limit is positive; it is installed only with the
\* declared keys locked; it is gone when the invocation has returned,
\* whatever the outcome, and none is installed while the engine is idle.
C27_HookOnlyWhileRunning ==
  /\ pc \in {"running", "raised", "dispatch"} => (hook = (luaTimeLimit > 0))
  /\ hook => /\ frame.active /\ frame.locklist = "ok"
             /\ \A i \in 3..(3 + frame.numkeys - 1) :
                  [owner |-> Self, key |-> Arg(frame.args, i), mode |-> "X"] \in locks
  /\ pc \in {"idle", "locking", "done"} => ~hook

\* a script that ended in an error with the hook armed: the hook is gone
C27_Witness ==
  /\ pc = "done" /\ result.kind = "err"
  /\ luaTimeLimit > 0
  /\ "lua_sethook" \in Range(trace) /\ "return" \in Range(trace)
  /\ ~hook

\* the keys the invocation in progress declares
DeclaredKeys == {Arg(frame.args, i) : i \in 3..(3 + frame.numkeys - 1)}

DirtyFlagsKept ==
  lua_random_dirty' = lua_random_dirty /\ lua_write_dirty' = lua_write_dirty

\* C29: a gateway call that is rejected (precheck, not allowed in scripts,
\* write after a nondeterministic command, or any earlier check) leaves both
\* dirty flags as they were; a call that passes all checks sets the flag of
\* each of CMD_RANDOM and CMD_WRITE its command carries before the executor
\* runs, and the executor's answer, a failure included, changes neither.
C29_DirtyFlagsFrame ==
  [][/\ \A argv \in CallArgs, r \in {0, 1} :
          luaRedisGenericCommand(argv, r)
          => IF pc' = "dispatch"
             THEN /\ lua_random_dirty' = IF CMD_RANDOM \in getFlags(call'.name)
                                         THEN 1 ELSE lua_random_dirty
                  /\ lua_write_dirty' = IF CMD_WRITE \in getFlags(call'.name)
                                        THEN 1 ELSE lua_write_dirty
             ELSE DirtyFlagsKept
     /\ \A expect \in ExecOutcomes :
          luaRedisGenericCommand_Dispatch(expect)
          => /\ DirtyFlagsKept
             /\ CMD_RANDOM \in getFlags(call.name) => lua_random_dirty' = 1
             /\ CMD_WRITE \in getFlags(call.name) => lua_write_dirty' = 1]_vars

\* redis.pcall of a write command has returned the executor's failure, and
\* the write flag is set
C29_Witness ==
  /\ pc = "running" /\ exec.dispatched /\ ~exec.random
  /\ lastRet = SingleFieldTable("err", LuaString(<<"ERR executor failed">>))
  /\ lua_write_dirty = 1 /\ lua_random_dirty = 0

\* C30: whenever evalGenericCommand has returned (NOSCRIPT, compile
\* failure, lock failure, script error, success with a return value of any
\* shape, nested tables included) the evaluation stack is as deep as it was
\* on entry, so nothing is left on it between invocations; while the
\* function is resolved it holds the error handler and the function.
C30_StackBalanced ==
  /\ pc \in {"idle", "done"} => top = 0
  /\ pc \in {"locking", "running", "raised", "dispatch"} => top = 2

\* a script has returned an array holding an array, and the reply was built
C30_Witness ==
  /\ pc = "done" /\ result.kind = "ok" /\ top = 0
  /\ result.reply = <<"*", "1">> \o CRLF \o <<"*", "1">> \o CRLF \o <<"*", "0">> \o CRLF

====
